---- MODULE Spec2Model ----
(***************************************************************************)
(* A model of the generational copying collector of zerogc-next            *)
(* (src/src/context.rs): headers with bit-packed state, a young bump       *)
(* region, an old space of individually freed objects, a root table of     *)
(* weak slots, and the mark / copy / sweep cycle of force_collect.         *)
(*                                                                         *)
(* The young and old spaces, the header layout and the abort guard live    *)
(* in modules of the crate that are not part of the sources at hand        *)
(* (context/young.rs, context/old.rs, context/layout.rs, utils.rs); the    *)
(* definitions that stand for them follow spec.md and say so.              *)
(***************************************************************************)
EXTENDS Integers, Sequences, FiniteSets, TLC

(***************************************************************************)
(* Bounds of the model.                                                    *)
(***************************************************************************)
\* number of alloc_with calls in one behaviour
MaxAllocs == 2
\* number of root() calls in one behaviour
MaxHandles == 2

(***************************************************************************)
(* Program constants.                                                      *)
(***************************************************************************)
\* GenerationSizes::INITIAL_COLLECT_THRESHOLD
INITIAL_COLLECT_THRESHOLD ==
    [young_generation_size |-> 12 * 1024, old_generation_size |-> 12 * 1204]

\* capacity of the young region, and the per-object cap of the young space
YOUNG_REGION_BYTES == 12 * 1024
YOUNG_MAX_OBJECT_BYTES == YOUNG_REGION_BYTES \div 2

\* the identity of the collector under study, and of some other collector
MyId == 1
OtherId == 2

(***************************************************************************)
(* Addresses.  0 is the null pointer (Option<Gc> = None).                  *)
(***************************************************************************)
Null == 0
YoungAddrs == 1 .. MaxAllocs
OldAddrs == (MaxAllocs + 1) .. (2 * MaxAllocs + 1)
ForeignAddr == 2 * MaxAllocs + 2
Addrs == YoungAddrs \cup OldAddrs \cup {ForeignAddr}

(***************************************************************************)
(* Static type information of the user types that are allocated.           *)
(***************************************************************************)
Types == {"Node", "Leaf", "Big"}

\* the array types: "Arr" is an array of two managed pointers
ArrayTypes == {"Arr"}

GcTypeInfo(ty) ==
    CASE ty = "Node" -> [size |-> 6144, nfields |-> 1, array |-> FALSE,
                         trace_func |-> TRUE, drop_func |-> TRUE]
      [] ty = "Leaf" -> [size |-> 2048, nfields |-> 0, array |-> FALSE,
                         trace_func |-> FALSE, drop_func |-> FALSE]
      [] ty = "Big"  -> [size |-> 12288, nfields |-> 1, array |-> FALSE,
                         trace_func |-> TRUE, drop_func |-> TRUE]
      [] ty = "Arr"  -> [size |-> 4096, nfields |-> 2, array |-> TRUE,
                         trace_func |-> TRUE, drop_func |-> FALSE]

NullFields(n) == [i \in 1 .. n |-> Null]

(***************************************************************************)
(* Mark bits: the raw bit means White or Black depending on the polarity.  *)
(***************************************************************************)
resolve(raw, inverted) == IF raw = inverted THEN "White" ELSE "Black"

to_raw(mark, inverted) == IF mark = "White" THEN inverted ELSE ~inverted

(***************************************************************************)
(* Headers.  A cell of memory that holds no allocation is FreeCell.        *)
(***************************************************************************)
FreeCell ==
    [allocated |-> FALSE, collector_id |-> 0, forwarded |-> FALSE,
     array |-> FALSE, generation |-> "Young", raw_mark |-> FALSE,
     value_initialized |-> FALSE,
     metadata |-> [type_info |-> "none", forward_ptr |-> Null],
     needs_drop |-> FALSE, value |-> 0, fields |-> << >>]

\* state bits that start a fresh header black instead of white
init_state_bits_black(gen, array, inverted) ==
    [forwarded |-> FALSE, generation |-> gen, array |-> array,
     raw_mark |-> to_raw("Black", inverted), value_initialized |-> FALSE]

\* RawAllocTarget::init_state_bits; array is the target's ARRAY constant
init_state_bits(gen, array, inverted) ==
    [forwarded |-> FALSE, generation |-> gen, array |-> array,
     raw_mark |-> to_raw("White", inverted), value_initialized |-> FALSE]

\* the header a space writes for a fresh allocation of type ty
NewHeader(ty, gen, inverted) ==
    LET bits == init_state_bits(gen, GcTypeInfo(ty).array, inverted) IN
    [allocated |-> TRUE, collector_id |-> MyId, forwarded |-> bits.forwarded,
     array |-> bits.array, generation |-> bits.generation,
     raw_mark |-> bits.raw_mark, value_initialized |-> bits.value_initialized,
     metadata |-> [type_info |-> ty, forward_ptr |-> Null],
     needs_drop |-> GcTypeInfo(ty).drop_func, value |-> 0,
     fields |-> NullFields(GcTypeInfo(ty).nfields)]

\* a header owned by another collector
ForeignHeader ==
    [allocated |-> TRUE, collector_id |-> OtherId, forwarded |-> FALSE,
     array |-> FALSE, generation |-> "Old", raw_mark |-> FALSE,
     value_initialized |-> TRUE,
     metadata |-> [type_info |-> "Leaf", forward_ptr |-> Null],
     needs_drop |-> FALSE, value |-> 0, fields |-> << >>]

VARIABLES
    heap,                \* Addrs -> header (or FreeCell)
    young_bump,          \* number of young cells handed out since the last sweep
    young_bytes,         \* young_generation.allocated_bytes()
    old_bytes,           \* old_generation.allocated_bytes()
    destruction_queue,   \* young headers whose drop must run on sweep
    mark_bits_inverted,  \* state.mark_bits_inverted
    roots,               \* the root table: a sequence of (weak) slot ids
    slots,               \* slot id -> [header, strong]: the GcRootBox cells
    last_collect_size,   \* None, or the sizes recorded by the last cycle
    pc,                  \* position of the one thread of control
    status,              \* "running", "panicked" or "aborted"
    guard_armed,         \* the AbortFailureGuard of force_collect is live
    root_idx,            \* position of roots.retain in the root table
    stack,               \* the frames of fallback_collect_gc_header in progress
    allocs,              \* alloc_with calls so far (also the next payload value)
    drop_count,          \* payload value -> number of calls of its drop function
                         \* (0: calls on a payload that was never written)
    rooted_value,        \* slot id -> payload value seen by root() (kept when
                         \* the handle is dropped)
    quiet,               \* no mutator activity since the last cycle returned
    snap,                \* what the running cycle started from
    fault,               \* the message of the panic that ended the run ("none" if none)
    visits,              \* payload value -> trace calls and copies in the running cycle
    old_mark_bits_inverted,  \* old_generation.mark_bits_inverted
    call                 \* the GcHandle::resolve call that has just returned

vars == << heap, young_bump, young_bytes, old_bytes, destruction_queue,
           mark_bits_inverted, roots, slots, last_collect_size, pc, status,
           guard_armed, root_idx, stack, allocs, drop_count, rooted_value,
           quiet, snap, fault, visits, old_mark_bits_inverted, call >>

None == [present |-> FALSE, young_generation_size |-> 0, old_generation_size |-> 0]

NoSnap == [taken |-> FALSE]

NoVisits == [v \in 1 .. MaxAllocs |-> [traced |-> 0, copied |-> 0]]

NoCall == [made |-> FALSE]

Init ==
    /\ heap = [a \in Addrs |-> IF a = ForeignAddr THEN ForeignHeader ELSE FreeCell]
    /\ young_bump = 0
    /\ young_bytes = 0
    /\ old_bytes = 0
    /\ destruction_queue = {}
    /\ mark_bits_inverted = FALSE
    /\ roots = << >>
    /\ slots = << >>
    /\ last_collect_size = None
    /\ pc = "idle"
    /\ status = "running"
    /\ guard_armed = FALSE
    /\ root_idx = 0
    /\ stack = << >>
    /\ allocs = 0
    /\ drop_count = [v \in 0 .. MaxAllocs |-> 0]
    /\ rooted_value = << >>
    /\ quiet = FALSE
    /\ snap = NoSnap
    /\ fault = "none"
    /\ visits = NoVisits
    /\ old_mark_bits_inverted = FALSE
    /\ call = NoCall


(***************************************************************************)
(* Helpers.                                                                *)
(***************************************************************************)
RemoveAt(s, i) == SubSeq(s, 1, i - 1) \o SubSeq(s, i + 1, Len(s))

Front(s) == SubSeq(s, 1, Len(s) - 1)

\* the old-generation allocator has no cell left to hand out
OldSpaceFull(h) == \A a \in OldAddrs : h[a].allocated

\* the cell the old-generation allocator hands out next
LowestFreeOld(h) ==
    CHOOSE a \in OldAddrs :
        /\ ~h[a].allocated
        /\ \A b \in OldAddrs : b < a => h[b].allocated

\* the objects of this collector the mutator can hold a managed pointer to
Accessible(h) ==
    {a \in YoungAddrs \cup OldAddrs : h[a].allocated /\ h[a].value_initialized}

\* what a managed pointer handed to root() or stored in a field can point to
Pointable(h) == Accessible(h) \cup {ForeignAddr}

(***************************************************************************)
(* Sizes and the trigger heuristic.                                        *)
(***************************************************************************)
\* GarbageCollector::current_size
current_size ==
    [present |-> TRUE,
     young_generation_size |-> young_bytes,
     old_generation_size |-> old_bytes]

\* a threshold that never leaves its initial value
threshold_size_initial ==
    [young_generation_size |-> INITIAL_COLLECT_THRESHOLD.young_generation_size,
     old_generation_size |-> INITIAL_COLLECT_THRESHOLD.old_generation_size]

\* GarbageCollector::threshold_size
threshold_size ==
    IF ~last_collect_size.present
    THEN [young_generation_size |-> INITIAL_COLLECT_THRESHOLD.young_generation_size,
          old_generation_size |-> INITIAL_COLLECT_THRESHOLD.old_generation_size]
    ELSE [young_generation_size |-> last_collect_size.young_generation_size * 2,
          old_generation_size |-> last_collect_size.old_generation_size * 2]

\* a threshold test that wants a size strictly over its threshold
meets_either_threshold_strict(sizes, threshold) ==
    \/ sizes.young_generation_size > threshold.young_generation_size
    \/ sizes.old_generation_size > threshold.old_generation_size

\* a threshold test that wants both generations over their threshold
meets_both_thresholds(sizes, threshold) ==
    /\ sizes.young_generation_size >= threshold.young_generation_size
    /\ sizes.old_generation_size >= threshold.old_generation_size

\* GenerationSizes::meets_either_threshold
meets_either_threshold(sizes, threshold) ==
    \/ sizes.young_generation_size >= threshold.young_generation_size
    \/ sizes.old_generation_size >= threshold.old_generation_size

\* GarbageCollector::needs_collection
needs_collection == meets_either_threshold(current_size, threshold_size)

(***************************************************************************)
(* Allocation.                                                             *)
(***************************************************************************)
\* YoungGenerationSpace::alloc_raw: which of its three answers it gives
young_alloc_raw(ty) ==
    IF GcTypeInfo(ty).size > YOUNG_MAX_OBJECT_BYTES THEN "SizeExceedsLimit"
    ELSE IF young_bytes + GcTypeInfo(ty).size > YOUNG_REGION_BYTES THEN "OutOfMemory"
    ELSE "Ok"

\* an alloc_with that sets the flag whether or not the payload was written
Initialized_flagged(hdr, init_ok) ==
    IF init_ok
    THEN [hdr EXCEPT !.value = allocs + 1, !.value_initialized = TRUE]
    ELSE [hdr EXCEPT !.value_initialized = TRUE]

\* the payload write and the flag set of alloc_with, or the header as the
\* failed initializer leaves it
Initialized(hdr, init_ok) ==
    IF init_ok
    THEN [hdr EXCEPT !.value = allocs + 1, !.value_initialized = TRUE]
    ELSE hdr

\* GarbageCollector::oom: a panic outside any collection cycle
OomPanic(error) ==
    /\ status' = "panicked"
    /\ fault' = error
    /\ UNCHANGED << heap, young_bump, young_bytes, old_bytes, destruction_queue,
                    allocs >>

\* an alloc_raw that falls back to the old generation on any young error
alloc_raw_retry(young_answer) ==
    CASE young_answer = "Ok" -> "young"
      [] young_answer = "SizeExceedsLimit" -> "alloc_raw_fallback"
      [] young_answer = "OutOfMemory" -> "alloc_raw_fallback"

\* GarbageCollector::alloc_raw: what it does with the young space's answer
alloc_raw(young_answer) ==
    CASE young_answer = "Ok" -> "young"
      [] young_answer = "SizeExceedsLimit" -> "alloc_raw_fallback"
      [] young_answer = "OutOfMemory" -> "oom"

\* DestroyUninitValueGuard::drop, for a header of the old generation:
\* old_generation.destroy_uninit_object frees the cell again
AllocOld(ty, init_ok) ==
    LET a == LowestFreeOld(heap)
        hdr == Initialized(NewHeader(ty, "Old", mark_bits_inverted), init_ok)
    IN /\ heap' = [heap EXCEPT ![a] = IF init_ok THEN hdr ELSE FreeCell]
       /\ old_bytes' = IF init_ok THEN old_bytes + GcTypeInfo(ty).size ELSE old_bytes
       /\ allocs' = allocs + 1
       /\ UNCHANGED << young_bump, young_bytes, destruction_queue, status,
                       fault >>

\* the young path: a header left uninitialized by a failed initializer stays
\* where it is until the next sweep
AllocYoung(ty, init_ok) ==
    LET a == young_bump + 1
        hdr == Initialized(NewHeader(ty, "Young", mark_bits_inverted), init_ok)
    IN /\ heap' = [heap EXCEPT ![a] = hdr]
       /\ young_bump' = a
       /\ young_bytes' = young_bytes + GcTypeInfo(ty).size
       /\ destruction_queue' =
              IF GcTypeInfo(ty).drop_func THEN destruction_queue \cup {a}
              ELSE destruction_queue
       /\ allocs' = allocs + 1
       /\ UNCHANGED << old_bytes, status, fault >>

\* GarbageCollector::alloc_with with alloc_raw, alloc_raw_fallback and the
\* initialization guard; init_ok: the initializer returns normally,
\* old_ok: the old-generation allocator has memory
alloc_with(ty, init_ok, old_ok) ==
    /\ pc = "idle"
    /\ status = "running"
    /\ allocs < MaxAllocs \/ young_alloc_raw(ty) = "OutOfMemory"
    /\ LET route == alloc_raw(young_alloc_raw(ty)) IN
       CASE route = "young" -> AllocYoung(ty, init_ok)
         [] route = "alloc_raw_fallback" ->
                IF old_ok /\ ~OldSpaceFull(heap)
                THEN AllocOld(ty, init_ok) ELSE OomPanic("old: OutOfMemory")
         [] route = "oom" -> OomPanic("young: OutOfMemory")
    /\ quiet' = FALSE
    /\ UNCHANGED << mark_bits_inverted, roots, slots, last_collect_size, pc,
                    guard_armed, root_idx, stack, drop_count, rooted_value,
                    snap, visits,
                    old_mark_bits_inverted, call >>

\* the allocation of an array of managed pointers, all None at first: the
\* same routing as alloc_with, with an ArrayAlloc target
alloc_array(ty, old_ok) ==
    /\ pc = "idle"
    /\ status = "running"
    /\ allocs < MaxAllocs \/ young_alloc_raw(ty) = "OutOfMemory"
    /\ LET route == alloc_raw(young_alloc_raw(ty)) IN
       CASE route = "young" -> AllocYoung(ty, TRUE)
         [] route = "alloc_raw_fallback" ->
                IF old_ok /\ ~OldSpaceFull(heap)
                THEN AllocOld(ty, TRUE) ELSE OomPanic("old: OutOfMemory")
         [] route = "oom" -> OomPanic("young: OutOfMemory")
    /\ quiet' = FALSE
    /\ UNCHANGED << mark_bits_inverted, roots, slots, last_collect_size, pc,
                    guard_armed, root_idx, stack, drop_count, rooted_value,
                    snap, visits, old_mark_bits_inverted, call >>

(***************************************************************************)
(* Roots, handles and field mutation.                                      *)
(***************************************************************************)
\* GarbageCollector::root
root(a) ==
    /\ pc = "idle"
    /\ status = "running"
    /\ Len(slots) < MaxHandles
    /\ a \in Pointable(heap)
    /\ slots' = Append(slots, [header |-> a, strong |-> 1])
    /\ roots' = Append(roots, Len(slots) + 1)
    /\ rooted_value' = Append(rooted_value, heap[a].value)
    /\ quiet' = FALSE
    /\ UNCHANGED << heap, young_bump, young_bytes, old_bytes, destruction_queue,
                    mark_bits_inverted, last_collect_size, pc, status,
                    guard_armed, root_idx, stack, allocs, drop_count, snap, fault, visits,
                    old_mark_bits_inverted, call >>

\* dropping a GcHandle: the strong count of its GcRootBox falls to zero and
\* the box is released; the Weak in the root table stays
drop_handle(s) ==
    /\ pc = "idle"
    /\ status = "running"
    /\ s \in DOMAIN slots
    /\ slots[s].strong > 0
    /\ slots' = [slots EXCEPT ![s] = [header |-> Null, strong |-> 0]]
    /\ quiet' = FALSE
    /\ UNCHANGED << rooted_value, heap, young_bump, young_bytes, old_bytes, destruction_queue,
                    mark_bits_inverted, roots, last_collect_size, pc, status,
                    guard_armed, root_idx, stack, allocs, drop_count, snap, fault, visits,
                    old_mark_bits_inverted, call >>

\* the identity stored in a GcHandle: root() takes it from the collector
GcHandle_id(s) == MyId

\* a resolve that does not compare identities
GcHandle_resolve_unchecked(sl, s, collector_id) ==
    [kind |-> "ok", ptr |-> sl[s].header]

\* GcHandle::resolve, called on the handle of slot s with a collector whose
\* identity is collector_id: a panic, or the pointer read from the slot
GcHandle_resolve(sl, s, collector_id) ==
    IF GcHandle_id(s) # collector_id
    THEN [kind |-> "panic", ptr |-> Null]
    ELSE [kind |-> "ok", ptr |-> sl[s].header]

\* the mutator calls handle.resolve(collector)
handle_resolve(s, collector_id) ==
    /\ pc = "idle"
    /\ status = "running"
    /\ s \in DOMAIN slots
    /\ slots[s].strong > 0
    /\ LET r == GcHandle_resolve(slots, s, collector_id) IN
       /\ call' = [made |-> TRUE, handle |-> s, collector_id |-> collector_id,
                   kind |-> r.kind, ptr |-> r.ptr]
       /\ status' = IF r.kind = "panic" THEN "panicked" ELSE status
       /\ fault' = IF r.kind = "panic" THEN "assertion failed: id" ELSE fault
    /\ pc' = "resolved"
    /\ UNCHANGED << heap, young_bump, young_bytes, old_bytes, destruction_queue,
                    mark_bits_inverted, roots, slots, last_collect_size,
                    guard_armed, root_idx, stack, allocs, drop_count,
                    rooted_value, quiet, snap, visits, old_mark_bits_inverted >>

\* the mutator goes on with the pointer resolve returned
handle_resolved ==
    /\ pc = "resolved"
    /\ status = "running"
    /\ pc' = "idle"
    /\ call' = NoCall
    /\ UNCHANGED << heap, young_bump, young_bytes, old_bytes, destruction_queue,
                    mark_bits_inverted, roots, slots, last_collect_size, status,
                    guard_armed, root_idx, stack, allocs, drop_count,
                    rooted_value, quiet, snap, fault, visits,
                    old_mark_bits_inverted >>

\* the mutator stores a managed pointer (or None) into a field of an object
set_field(a, i, t) ==
    /\ pc = "idle"
    /\ status = "running"
    /\ a \in Accessible(heap)
    /\ i \in DOMAIN heap[a].fields
    /\ t \in Pointable(heap) \cup {Null}
    /\ t # Null => ~heap[t].array
    /\ heap[a].fields[i] # t
    /\ heap' = [heap EXCEPT ![a].fields[i] = t]
    /\ quiet' = FALSE
    /\ UNCHANGED << young_bump, young_bytes, old_bytes, destruction_queue,
                    mark_bits_inverted, roots, slots, last_collect_size, pc,
                    status, guard_armed, root_idx, stack, allocs, drop_count,
                    rooted_value, snap, fault, visits,
                    old_mark_bits_inverted, call >>

(***************************************************************************)
(* The collection cycle: entry.                                            *)
(***************************************************************************)
\* a force_collect that flips the polarity before it sweeps
next_stage_flip_first(stage) ==
    CASE stage = "mark" -> "flip"
      [] stage = "flip" -> "sweep_young"
      [] stage = "sweep_young" -> "sweep_old"
      [] stage = "sweep_old" -> "record"
      [] stage = "record" -> "idle"

\* the order of the statements of force_collect: what follows each phase
next_stage(stage) ==
    CASE stage = "mark" -> "sweep_young"
      [] stage = "sweep_young" -> "sweep_old"
      [] stage = "sweep_old" -> "flip"
      [] stage = "flip" -> "record"
      [] stage = "record" -> "idle"

\* force_collect up to the call of roots.retain: the trace context is
\* built and the abort guard is armed
BeginCycle ==
    /\ pc' = "mark"
    /\ guard_armed' = TRUE
    /\ root_idx' = 1
    /\ stack' = << >>
    /\ snap' = [taken |-> TRUE, heap |-> heap, slots |-> slots, roots |-> roots,
                drop_count |-> drop_count, old_bytes |-> old_bytes,
                quiet |-> quiet]
    /\ quiet' = FALSE
    /\ UNCHANGED << heap, young_bump, young_bytes, old_bytes, destruction_queue,
                    mark_bits_inverted, roots, slots, last_collect_size, status,
                    allocs, drop_count, rooted_value, fault, visits,
                    old_mark_bits_inverted, call >>

\* GarbageCollector::force_collect is called
force_collect ==
    /\ pc = "idle"
    /\ status = "running"
    /\ BeginCycle

\* GarbageCollector::collect is called
collect ==
    /\ pc = "idle"
    /\ status = "running"
    /\ pc' = "collect"
    /\ UNCHANGED << heap, young_bump, young_bytes, old_bytes, destruction_queue,
                    mark_bits_inverted, roots, slots, last_collect_size, status,
                    guard_armed, root_idx, stack, allocs, drop_count,
                    rooted_value, quiet, snap, fault, visits,
                    old_mark_bits_inverted, call >>

\* the body of GarbageCollector::collect
collect_decide ==
    /\ pc = "collect"
    /\ IF needs_collection
       THEN BeginCycle
       ELSE /\ pc' = "idle"
            /\ UNCHANGED << heap, young_bump, young_bytes, old_bytes,
                            destruction_queue, mark_bits_inverted, roots, slots,
                            last_collect_size, status, guard_armed, root_idx,
                            stack, allocs, drop_count, rooted_value, quiet,
                            snap, fault, visits,
                    old_mark_bits_inverted, call >>

(***************************************************************************)
(* Marking.                                                                *)
(***************************************************************************)
\* a collect_gcheader that does not compare collector ids
collect_gcheader_unchecked(h, a, inverted, id, debug_assertions) ==
    IF debug_assertions /\ h[a].array
    THEN [kind |-> "panic", ptr |-> Null, why |-> "Incorrectly marked as an array"]
    ELSE IF h[a].forwarded
    THEN [kind |-> "return", ptr |-> h[a].metadata.forward_ptr, why |-> "none"]
    ELSE IF resolve(h[a].raw_mark, inverted) = "Black"
    THEN [kind |-> "return", ptr |-> a, why |-> "none"]
    ELSE [kind |-> "fallback", ptr |-> a, why |-> "none"]

\* CollectContext::collect_gcheader: what the call does with header a of
\* heap h, for the collector with identity id and polarity inverted, in a
\* build with or without debug assertions
collect_gcheader(h, a, inverted, id, debug_assertions) ==
    IF h[a].collector_id # id
    THEN [kind |-> "panic", ptr |-> Null, why |-> "Mismatched collector ids"]
    ELSE IF debug_assertions /\ h[a].array
    THEN [kind |-> "panic", ptr |-> Null, why |-> "Incorrectly marked as an array"]
    ELSE IF h[a].forwarded
    THEN [kind |-> "return", ptr |-> h[a].metadata.forward_ptr, why |-> "none"]
    ELSE IF resolve(h[a].raw_mark, inverted) = "Black"
    THEN [kind |-> "return", ptr |-> a, why |-> "none"]
    ELSE [kind |-> "fallback", ptr |-> a, why |-> "none"]

\* state bits of a copy whose initialized flag is left clear
copied_state_bits_uninit(orig) ==
    [forwarded |-> orig.forwarded, array |-> orig.array, generation |-> "Old",
     raw_mark |-> orig.raw_mark, value_initialized |-> FALSE]

\* state bits of a copy that keeps the generation of the original
copied_state_bits_young(orig) ==
    [forwarded |-> orig.forwarded, array |-> orig.array,
     generation |-> orig.generation,
     raw_mark |-> orig.raw_mark, value_initialized |-> TRUE]

\* state bits of the copy taken after the original was flagged forwarded
copied_state_bits_late(orig) ==
    [forwarded |-> TRUE, array |-> orig.array, generation |-> "Old",
     raw_mark |-> orig.raw_mark, value_initialized |-> TRUE]

\* the state bits of the old-space copy: those of the original, which is
\* already black and not yet forwarded, with the generation and the
\* initialized flag set
copied_state_bits(orig) ==
    [forwarded |-> orig.forwarded, array |-> orig.array, generation |-> "Old",
     raw_mark |-> orig.raw_mark, value_initialized |-> TRUE]

\* a tracer that copies every white object, whatever its generation
promotes_always(generation) == TRUE

\* the match on prev_generation: a young header is reallocated in the old
\* space, an old one stays where it is
promotes(generation) == generation = "Young"

\* a promotion that leaves the original on the destruction queue
queue_left_alone(q, a, needs_drop) == q

\* the young destruction queue after the promotion of header a
queue_after_promotion(q, a, needs_drop) ==
    IF needs_drop THEN q \ {a} ELSE q

\* a fallback_collect_gc_header that leaves the mark bit of the header alone
fallback_collect_gc_header_unmarked(h, a, inverted, dst) ==
    LET marked == h[a]
        type_info == marked.metadata.type_info
    IN IF promotes(marked.generation)
       THEN LET fresh == NewHeader(type_info, "Old", inverted)
                bits == copied_state_bits(marked)
                copied == [fresh EXCEPT !.forwarded = bits.forwarded,
                                        !.array = bits.array,
                                        !.generation = bits.generation,
                                        !.raw_mark = bits.raw_mark,
                                        !.value_initialized = bits.value_initialized,
                                        !.value = marked.value,
                                        !.fields = marked.fields]
                original == [marked EXCEPT
                                !.forwarded = TRUE,
                                !.metadata = [type_info |-> "none",
                                              forward_ptr |-> dst]]
            IN [h EXCEPT ![a] = original, ![dst] = copied]
       ELSE [h EXCEPT ![a] = marked]

\* fallback_collect_gc_header up to its call of trace_children: the heap
\* after header a was marked black and, if young, copied to the old cell dst
fallback_collect_gc_header(h, a, inverted, dst) ==
    LET marked == [h[a] EXCEPT !.raw_mark = to_raw("Black", inverted)]
        type_info == marked.metadata.type_info
    IN IF promotes(marked.generation)
       THEN LET fresh == NewHeader(type_info, "Old", inverted)
                bits == copied_state_bits(marked)
                copied == [fresh EXCEPT !.forwarded = bits.forwarded,
                                        !.array = bits.array,
                                        !.generation = bits.generation,
                                        !.raw_mark = bits.raw_mark,
                                        !.value_initialized = bits.value_initialized,
                                        !.value = marked.value,
                                        !.fields = marked.fields]
                original == [marked EXCEPT
                                !.forwarded = TRUE,
                                !.metadata = [type_info |-> "none",
                                              forward_ptr |-> dst]]
            IN [h EXCEPT ![a] = original, ![dst] = copied]
       ELSE [h EXCEPT ![a] = marked]

\* a panic inside the cycle that unwinds whether or not a guard is armed
Fatal_unwinds(why) ==
    /\ status' = "panicked"
    /\ fault' = why
    /\ UNCHANGED << heap, old_bytes, destruction_queue, slots, root_idx, stack,
                    visits >>

\* a panic inside the cycle: with the guard armed the process aborts
Fatal(why) ==
    /\ status' = IF guard_armed THEN "aborted" ELSE "panicked"
    /\ fault' = why
    /\ UNCHANGED << heap, old_bytes, destruction_queue, slots, root_idx, stack,
                    visits >>

\* a retain closure that forgets root.header.set(new_header)
root_header_not_updated(old_header, new_header) == old_header

\* the value new_header stored by the retain closure of force_collect
root_header_after_trace(old_header, new_header) == new_header

\* a trace_gc_ptr_mut that does not write the pointer back to the field
Deliver_no_writeback(stk, ptr, h) ==
    IF stk = << >>
    THEN /\ slots' = [slots EXCEPT ![roots[root_idx]].header =
                          root_header_after_trace(@, ptr)]
         /\ root_idx' = root_idx + 1
         /\ heap' = h
         /\ stack' = stk
    ELSE LET top == stk[Len(stk)] IN
         /\ heap' = h
         /\ stack' = [stk EXCEPT ![Len(stk)].fld = top.fld + 1]
         /\ UNCHANGED << slots, root_idx >>

\* collect_gcheader returns ptr to its caller, whose frames are stk, with
\* the heap h: the retain closure stores it in the root slot and goes on to
\* the next root, trace_gc_ptr_mut writes it to the field it was given
Deliver(stk, ptr, h) ==
    IF stk = << >>
    THEN /\ slots' = [slots EXCEPT ![roots[root_idx]].header =
                          root_header_after_trace(@, ptr)]
         /\ root_idx' = root_idx + 1
         /\ heap' = h
         /\ stack' = stk
    ELSE LET top == stk[Len(stk)] IN
         /\ heap' = [h EXCEPT ![top.obj].fields[top.fld] = ptr]
         /\ stack' = [stk EXCEPT ![Len(stk)].fld = top.fld + 1]
         /\ UNCHANGED << slots, root_idx >>

\* the visit counts after fallback_collect_gc_header ran on the object with
\* payload value v
visited(vs, v, copied, traced) ==
    [vs EXCEPT ![v].copied = @ + (IF copied THEN 1 ELSE 0),
               ![v].traced = @ + (IF traced THEN 1 ELSE 0)]

\* the call collect_gcheader(a) made with the frames stk below it;
\* old_ok: the old-generation allocator has memory for a promotion
Trace(a, stk, old_ok, debug_assertions) ==
    LET r == collect_gcheader(heap, a, mark_bits_inverted, MyId,
                              debug_assertions) IN
    CASE r.kind = "panic" -> Fatal(r.why)
      [] r.kind = "return" ->
            /\ Deliver(stk, r.ptr, heap)
            /\ UNCHANGED << old_bytes, destruction_queue, status, fault,
                            visits >>
      [] r.kind = "fallback" ->
            LET young == promotes(heap[a].generation)
                type_info == heap[a].metadata.type_info
                dst == IF young THEN LowestFreeOld(heap) ELSE a
                h2 == fallback_collect_gc_header(heap, a, mark_bits_inverted, dst)
            IN IF young /\ (~old_ok \/ OldSpaceFull(heap))
               THEN Fatal("Oldgen alloc failure")
               ELSE /\ visits' = visited(visits, heap[a].value, young,
                                         GcTypeInfo(type_info).trace_func)
                    /\ old_bytes' = IF young
                                    THEN old_bytes + GcTypeInfo(type_info).size
                                    ELSE old_bytes
                    /\ destruction_queue' =
                          IF young
                          THEN queue_after_promotion(destruction_queue, a,
                                                     heap[a].needs_drop)
                          ELSE destruction_queue
                    /\ IF GcTypeInfo(type_info).trace_func
                       THEN /\ stack' = Append(stk, [obj |-> dst, fld |-> 1])
                            /\ heap' = h2
                            /\ UNCHANGED << slots, root_idx >>
                       ELSE Deliver(stk, dst, h2)
                    /\ UNCHANGED << status, fault >>

MarkFrame == << young_bump, young_bytes, mark_bits_inverted, roots,
                last_collect_size, pc, guard_armed, allocs, drop_count,
                rooted_value, quiet, snap,
                old_mark_bits_inverted, call >>

\* a retain closure that keeps no entry
retain_keeps_none(strong) == FALSE

\* the retain closure of force_collect keeps an entry iff its Weak upgrades
retain_keeps(strong) == strong > 0

\* roots.retain meets a root whose handle is gone: the entry is deleted
drop_dead_root ==
    /\ pc = "mark"
    /\ status = "running"
    /\ stack = << >>
    /\ root_idx <= Len(roots)
    /\ ~retain_keeps(slots[roots[root_idx]].strong)
    /\ roots' = RemoveAt(roots, root_idx)
    /\ UNCHANGED << heap, young_bump, young_bytes, old_bytes, destruction_queue,
                    mark_bits_inverted, slots, last_collect_size, pc, status,
                    guard_armed, root_idx, stack, allocs, drop_count,
                    rooted_value, quiet, snap, fault, visits,
                    old_mark_bits_inverted, call >>

\* roots.retain meets a live root: its header is traced
trace_root(old_ok, debug_assertions) ==
    /\ pc = "mark"
    /\ status = "running"
    /\ stack = << >>
    /\ root_idx <= Len(roots)
    /\ retain_keeps(slots[roots[root_idx]].strong)
    /\ Trace(slots[roots[root_idx]].header, stack, old_ok, debug_assertions)
    /\ UNCHANGED MarkFrame

\* trace_children: the trace function reaches the next field of the object
\* and hands it to trace_gc_ptr_mut (a field holding None has nothing to trace)
trace_field(old_ok, debug_assertions) ==
    /\ pc = "mark"
    /\ status = "running"
    /\ stack # << >>
    /\ LET top == stack[Len(stack)] IN
       /\ top.fld <= Len(heap[top.obj].fields)
       /\ IF heap[top.obj].fields[top.fld] = Null
          THEN /\ stack' = [stack EXCEPT ![Len(stack)].fld = top.fld + 1]
               /\ UNCHANGED << heap, old_bytes, destruction_queue, slots,
                               root_idx, status, fault, visits >>
          ELSE Trace(heap[top.obj].fields[top.fld], stack, old_ok,
                     debug_assertions)
    /\ UNCHANGED MarkFrame

\* the trace function is done with the object: fallback_collect_gc_header
\* returns the post-copy header
trace_return ==
    /\ pc = "mark"
    /\ status = "running"
    /\ stack # << >>
    /\ LET top == stack[Len(stack)] IN
       /\ top.fld > Len(heap[top.obj].fields)
       /\ Deliver(Front(stack), top.obj, heap)
    /\ UNCHANGED << old_bytes, destruction_queue, status, fault, visits >>
    /\ UNCHANGED MarkFrame

\* the user's trace function panics instead of returning
trace_func_panics ==
    /\ pc = "mark"
    /\ status = "running"
    /\ stack # << >>
    /\ LET top == stack[Len(stack)] IN top.fld > Len(heap[top.obj].fields)
    /\ Fatal("trace function panicked")
    /\ UNCHANGED MarkFrame

\* roots.retain is done: the borrow is released and the guard defused
finish_mark ==
    /\ pc = "mark"
    /\ status = "running"
    /\ stack = << >>
    /\ root_idx > Len(roots)
    /\ guard_armed' = FALSE
    /\ pc' = next_stage("mark")
    /\ UNCHANGED << heap, young_bump, young_bytes, old_bytes, destruction_queue,
                    mark_bits_inverted, roots, slots, last_collect_size, status,
                    root_idx, stack, allocs, drop_count, rooted_value, quiet,
                    snap, fault, visits,
                    old_mark_bits_inverted, call >>


(***************************************************************************)
(* Sweeping, the polarity flip and the recording of sizes.                 *)
(***************************************************************************)
\* the values whose drop function a sweep calls, counted into the tally d
Dropped(d, h, cells) ==
    [v \in DOMAIN d |-> d[v] + Cardinality({a \in cells : h[a].value = v})]

\* YoungGenerationSpace::sweep: the headers whose drop function it calls:
\* those still on the destruction queue that are white (an uninitialized
\* header has no value to drop)
young_sweep_drops(h, q, inverted) ==
    {a \in q : /\ resolve(h[a].raw_mark, inverted) = "White"
               /\ h[a].value_initialized}

\* YoungGenerationSpace::sweep: the region is reclaimed, the bump pointer
\* reset and the queue cleared
sweep_young ==
    /\ pc = "sweep_young"
    /\ status = "running"
    /\ drop_count' = Dropped(drop_count, heap,
                             young_sweep_drops(heap, destruction_queue,
                                               mark_bits_inverted))
    /\ heap' = [a \in Addrs |-> IF a \in YoungAddrs THEN FreeCell ELSE heap[a]]
    /\ young_bump' = 0
    /\ young_bytes' = 0
    /\ destruction_queue' = {}
    /\ pc' = next_stage("sweep_young")
    /\ UNCHANGED << old_bytes, mark_bits_inverted, roots, slots,
                    last_collect_size, status, guard_armed, root_idx, stack,
                    allocs, rooted_value, quiet, snap, fault, visits,
                    old_mark_bits_inverted, call >>

\* OldGenerationSpace::sweep: the objects it frees (the white ones)
old_sweep_frees(h, inverted) ==
    {a \in OldAddrs : h[a].allocated /\ resolve(h[a].raw_mark, inverted) = "White"}

RECURSIVE SumSizes(_, _)
SumSizes(h, cells) ==
    IF cells = {} THEN 0
    ELSE LET a == CHOOSE x \in cells : TRUE
         IN GcTypeInfo(h[a].metadata.type_info).size + SumSizes(h, cells \ {a})

\* a sweep that stores the polarity it was handed
old_polarity_as_passed(inverted) == inverted

\* OldGenerationSpace::sweep(&state) is the one call into the old space
\* between marking and the return of force_collect, and it precedes the
\* flip: it leaves the space's own copy of the polarity at the value the
\* collector state takes at the end of the cycle
old_polarity_after_sweep(inverted) == ~inverted

\* OldGenerationSpace::sweep: white objects are dropped (if their type has a
\* drop function) and freed, black ones are retained
sweep_old ==
    /\ pc = "sweep_old"
    /\ status = "running"
    /\ LET freed == old_sweep_frees(heap, mark_bits_inverted) IN
       /\ drop_count' = Dropped(drop_count, heap,
                                {a \in freed : heap[a].needs_drop})
       /\ heap' = [a \in Addrs |-> IF a \in freed THEN FreeCell ELSE heap[a]]
       /\ old_bytes' = old_bytes - SumSizes(heap, freed)
    /\ old_mark_bits_inverted' = old_polarity_after_sweep(mark_bits_inverted)
    /\ pc' = next_stage("sweep_old")
    /\ UNCHANGED << young_bump, young_bytes, destruction_queue,
                    mark_bits_inverted, roots, slots, last_collect_size, status,
                    guard_armed, root_idx, stack, allocs, rooted_value, quiet,
                    snap, fault, visits, call >>

\* a cycle that forgets to flip the polarity
mark_bits_kept(inverted) == inverted

\* the polarity after the flip
inverted_mark_bits(inverted) == ~inverted

\* force_collect inverts the meaning of the mark bits
flip_mark_bits ==
    /\ pc = "flip"
    /\ status = "running"
    /\ mark_bits_inverted' = inverted_mark_bits(mark_bits_inverted)
    /\ pc' = next_stage("flip")
    /\ UNCHANGED << heap, young_bump, young_bytes, old_bytes, destruction_queue,
                    roots, slots, last_collect_size, status, guard_armed,
                    root_idx, stack, allocs, drop_count, rooted_value, quiet,
                    snap, fault, visits,
                    old_mark_bits_inverted, call >>

\* force_collect records the sizes and returns
record_size ==
    /\ pc = "record"
    /\ status = "running"
    /\ last_collect_size' = current_size
    /\ pc' = next_stage("record")
    /\ quiet' = TRUE
    /\ snap' = NoSnap
    /\ root_idx' = 0
    /\ visits' = NoVisits
    /\ UNCHANGED << heap, young_bump, young_bytes, old_bytes, destruction_queue,
                    mark_bits_inverted, roots, slots, status, guard_armed,
                    stack, allocs, drop_count, rooted_value, fault,
                    old_mark_bits_inverted, call >>

(***************************************************************************)
(* The specification.                                                      *)
(***************************************************************************)
Next ==
    \/ \E ty \in Types, init_ok \in BOOLEAN, old_ok \in BOOLEAN :
           alloc_with(ty, init_ok, old_ok)
    \/ \E ty \in ArrayTypes, old_ok \in BOOLEAN : alloc_array(ty, old_ok)
    \/ \E a \in Addrs : root(a)
    \/ \E s \in 1 .. MaxHandles : drop_handle(s)
    \/ \E s \in 1 .. MaxHandles, id \in {MyId, OtherId} : handle_resolve(s, id)
    \/ handle_resolved
    \/ \E a \in Addrs, i \in 1 .. 2, t \in Addrs \cup {Null} : set_field(a, i, t)
    \/ force_collect
    \/ collect
    \/ collect_decide
    \/ drop_dead_root
    \/ \E old_ok \in BOOLEAN, debug_assertions \in BOOLEAN :
           trace_root(old_ok, debug_assertions)
    \/ \E old_ok \in BOOLEAN, debug_assertions \in BOOLEAN :
           trace_field(old_ok, debug_assertions)
    \/ trace_return
    \/ trace_func_panics
    \/ finish_mark
    \/ sweep_young
    \/ sweep_old
    \/ flip_mark_bits
    \/ record_size

Spec == Init /\ [][Next]_vars

\* the steps of collect and force_collect once they have been called: the
\* one thread of control executes them without waiting for anything
CycleStep ==
    \/ collect_decide
    \/ drop_dead_root
    \/ \E old_ok \in BOOLEAN, debug_assertions \in BOOLEAN :
           trace_root(old_ok, debug_assertions)
    \/ \E old_ok \in BOOLEAN, debug_assertions \in BOOLEAN :
           trace_field(old_ok, debug_assertions)
    \/ trace_return
    \/ trace_func_panics
    \/ finish_mark
    \/ sweep_young
    \/ sweep_old
    \/ flip_mark_bits
    \/ record_size

FairSpec == Spec /\ WF_vars(CycleStep)


(***************************************************************************)
(* Vocabulary of the properties.                                           *)
(***************************************************************************)
\* the headers reachable in heap h from the headers in frontier
RECURSIVE ReachFrom(_, _, _)
ReachFrom(h, frontier, seen) ==
    IF frontier = {} THEN seen
    ELSE LET all == seen \cup frontier
             nxt == UNION {{h[a].fields[i] : i \in DOMAIN h[a].fields} :
                           a \in frontier}
         IN ReachFrom(h, nxt \ (all \cup {Null}), all)

Reach(h, a) == ReachFrom(h, {a}, {})

\* the slots whose handle is held
Held(sl) == {s \in DOMAIN sl : sl[s].strong > 0}

\* the headers reachable from the root set
ReachRoots(h, sl) == ReachFrom(h, {sl[s].header : s \in Held(sl)}, {})

\* the logical value of everything reachable from header a: each object as
\* its payload value, its type and the payload values its fields point to
LogicalGraph(h, a) ==
    {[value |-> h[x].value,
      type |-> h[x].metadata.type_info,
      fields |-> [i \in DOMAIN h[x].fields |->
                    IF h[x].fields[i] = Null THEN 0
                    ELSE h[h[x].fields[i]].value]] : x \in Reach(h, a)}

\* the initialized objects of this collector in heap h
Live(h) == {a \in YoungAddrs \cup OldAddrs : h[a].allocated /\ h[a].value_initialized}

\* the step in which force_collect returns
Returns == pc = "record" /\ pc' = "idle"

\* the pointer the next marking step hands to collect_gcheader (Null if none)
Pending ==
    IF pc # "mark" THEN Null
    ELSE IF stack = << >>
    THEN IF root_idx <= Len(roots) /\ slots[roots[root_idx]].strong > 0
         THEN slots[roots[root_idx]].header ELSE Null
    ELSE LET top == stack[Len(stack)] IN
         IF top.fld <= Len(heap[top.obj].fields)
         THEN heap[top.obj].fields[top.fld] ELSE Null


(***************************************************************************)
(* C1.  Reachability preservation and root slot stability: whenever the    *)
(* mutator is in control, every held handle resolves to a live,            *)
(* initialized, unforwarded object with the payload value it had when it   *)
(* was rooted; and when force_collect returns, everything that was         *)
(* reachable from a held handle before the cycle is reachable from it      *)
(* after the cycle with the same values and the same links (the header     *)
(* address in the slot may have changed).                                  *)
(***************************************************************************)
HandleResolves(h, sl, rv) ==
    \A s \in Held(sl) :
        /\ h[sl[s].header].allocated
        /\ h[sl[s].header].value_initialized
        /\ ~h[sl[s].header].forwarded
        /\ h[sl[s].header].value = rv[s]

C1_ReachabilityPreserved ==
    /\ [](pc = "idle" => HandleResolves(heap, slots, rooted_value))
    /\ [][Returns =>
            \A s \in Held(slots') :
                LogicalGraph(heap', slots'[s].header)
                    = LogicalGraph(snap.heap, snap.slots[s].header)]_vars

\* a cycle that is not the first is about to return; a held handle reaches
\* at least two objects, one of which was moved by this cycle
C1_Witness ==
    /\ pc = "record"
    /\ last_collect_size.present
    /\ \E s \in Held(slots) :
          /\ Cardinality(Reach(heap, slots[s].header)) >= 2
          /\ \E x \in Reach(snap.heap, snap.slots[s].header) :
                snap.heap[x].generation = "Young"


(***************************************************************************)
(* C2.  Unreachable reclamation: when force_collect returns, every         *)
(* initialized object that was unreachable from the root set when the      *)
(* cycle started has had its drop function called exactly once during the  *)
(* cycle if its type has one (and not at all otherwise), its cell is free  *)
(* again, no object with its value is left, and the byte counts of the     *)
(* two spaces cover exactly what is still allocated.                       *)
(***************************************************************************)
Unreachable(h, sl) == Live(h) \ ReachRoots(h, sl)

OldCells(h) == {a \in OldAddrs : h[a].allocated}

C2_UnreachableReclaimed ==
    [][Returns =>
        /\ \A x \in Unreachable(snap.heap, snap.slots) :
              LET v == snap.heap[x].value
                  ty == snap.heap[x].metadata.type_info
              IN /\ drop_count'[v] - snap.drop_count[v]
                        = IF GcTypeInfo(ty).drop_func THEN 1 ELSE 0
                 /\ heap'[x] = FreeCell
                 /\ \A a \in YoungAddrs \cup OldAddrs : heap'[a].value # v
        /\ young_bytes' = 0
        /\ old_bytes' = SumSizes(heap', OldCells(heap'))]_vars

\* a cycle is about to return that started with two unrooted objects
\* pointing at each other, and both have been dropped
C2_Witness ==
    /\ pc = "record"
    /\ \E x, y \in Unreachable(snap.heap, snap.slots) :
          /\ x # y
          /\ snap.heap[x].fields = << y >>
          /\ snap.heap[y].fields = << x >>
          /\ drop_count[snap.heap[x].value] = 1
          /\ drop_count[snap.heap[y].value] = 1

(***************************************************************************)
(* C3.  No double drop, no drop on promotion: no drop function ever runs   *)
(* twice for one object; when the young sweep starts no forwarded header   *)
(* is on the destruction queue; the young sweep drops nothing that was     *)
(* promoted; and a drop function runs only in the young sweep on a white,  *)
(* unforwarded young header or in the old sweep on a white old header.     *)
(***************************************************************************)
C3_NoDropOnPromotion ==
    /\ [](\A v \in DOMAIN drop_count : drop_count[v] <= 1)
    /\ [](pc = "sweep_young" =>
             \A a \in destruction_queue : ~heap[a].forwarded)
    /\ [][\A v \in DOMAIN drop_count :
             drop_count'[v] > drop_count[v] =>
                \/ /\ pc = "sweep_young"
                   /\ \E a \in YoungAddrs :
                         /\ heap[a].allocated /\ heap[a].value = v
                         /\ ~heap[a].forwarded
                         /\ resolve(heap[a].raw_mark, mark_bits_inverted) = "White"
                \/ /\ pc = "sweep_old"
                   /\ \E a \in OldAddrs :
                         /\ heap[a].allocated /\ heap[a].value = v
                         /\ resolve(heap[a].raw_mark, mark_bits_inverted) = "White"]_vars

\* the old sweep has just dropped, for the first time, an object of a type
\* that is only ever allocated young: a promoted copy swept white
C3_Witness ==
    /\ pc = "flip"
    /\ \E a \in OldAddrs :
          /\ snap.heap[a].allocated
          /\ snap.heap[a].metadata.type_info = "Node"
          /\ snap.drop_count[snap.heap[a].value] = 0
          /\ drop_count[snap.heap[a].value] = 1
          /\ ~heap[a].allocated

(***************************************************************************)
(* C4.  Forwarding stability: once a cycle has run and the mutator is in   *)
(* control, no allocated header is forwarded, and every root slot whose    *)
(* handle is held points to an allocated header that is not forwarded.     *)
(***************************************************************************)
C4_NoForwardedAfterCycle ==
    (pc = "idle" /\ last_collect_size.present) =>
        /\ \A a \in YoungAddrs \cup OldAddrs :
              heap[a].allocated => ~heap[a].forwarded
        /\ \A i \in DOMAIN roots :
              slots[roots[i]].strong > 0 =>
                 /\ heap[slots[roots[i]].header].allocated
                 /\ ~heap[slots[roots[i]].header].forwarded

\* force_collect has just returned and a root slot points to a promoted copy
C4_Witness ==
    /\ pc = "idle"
    /\ quiet
    /\ \E i \in DOMAIN roots :
          /\ slots[roots[i]].strong > 0
          /\ slots[roots[i]].header \in OldAddrs
          /\ heap[slots[roots[i]].header].metadata.type_info = "Node"

(***************************************************************************)
(* C5.  Mark polarity: whenever the mutator is in control (so at the start *)
(* of every cycle), every allocated header of this collector resolves to   *)
(* White under the current polarity.                                       *)
(***************************************************************************)
C5_AllWhiteBetweenCycles ==
    pc \in {"idle", "collect"} =>
        \A a \in YoungAddrs \cup OldAddrs :
            heap[a].allocated =>
                resolve(heap[a].raw_mark, mark_bits_inverted) = "White"

\* after an odd number of cycles: a survivor of the last cycle and an object
\* allocated since
C5_Witness ==
    /\ pc = "idle"
    /\ mark_bits_inverted
    /\ \E a \in OldAddrs : heap[a].allocated /\ heap[a].value_initialized
    /\ \E a \in YoungAddrs : heap[a].allocated /\ heap[a].value_initialized


(***************************************************************************)
(* C6.  Identity isolation: when marking is about to trace a header whose  *)
(* collector_id is not that of the running collector, the outcome is a     *)
(* panic whatever the state bits of that header are, the step leaves the   *)
(* heap, the old space, the destruction queue and the root slots as they   *)
(* were, and since marking only runs with the abort guard armed the        *)
(* process aborts: nothing happens after it.                               *)
(***************************************************************************)
StateBitsOf(forwarded, raw_mark, generation) ==
    [ForeignHeader EXCEPT !.forwarded = forwarded, !.raw_mark = raw_mark,
                          !.generation = generation]

PendingForeign == Pending # Null /\ heap[Pending].collector_id # MyId

C6_IdentityMismatchAborts ==
    /\ [](\A f, m, inv, dbg \in BOOLEAN : \A g \in {"Young", "Old"} :
             collect_gcheader([heap EXCEPT ![ForeignAddr] = StateBitsOf(f, m, g)],
                              ForeignAddr, inv, MyId, dbg).why
                = "Mismatched collector ids")
    /\ [](pc = "mark" => guard_armed)
    /\ [](heap[ForeignAddr] = ForeignHeader)
    /\ [][(status = "running" /\ PendingForeign) =>
             /\ status' = "aborted"
             /\ UNCHANGED << heap, old_bytes, young_bytes, destruction_queue,
                             slots, roots, drop_count, mark_bits_inverted >>]_vars
    /\ [][status = "running"]_vars

\* the process has aborted in front of a header of another collector
C6_Witness ==
    /\ status = "aborted"
    /\ PendingForeign
    /\ stack # << >>

(***************************************************************************)
(* C7.  collect() starts a force_collect cycle if and only if the young    *)
(* size has reached the young threshold or the old size has reached the    *)
(* old threshold; otherwise it returns having changed nothing of the heap, *)
(* the root table, the mark polarity and last_collect_size.                *)
(***************************************************************************)
OverThreshold ==
    \/ young_bytes >= threshold_size.young_generation_size
    \/ old_bytes >= threshold_size.old_generation_size

C7_CollectIffThreshold ==
    [][pc = "collect" =>
          IF OverThreshold
          THEN pc' = "mark" /\ snap'.taken
          ELSE /\ pc' = "idle"
               /\ UNCHANGED << heap, young_bump, young_bytes, old_bytes,
                               destruction_queue, roots, slots,
                               mark_bits_inverted, last_collect_size,
                               drop_count >>]_vars

\* collect() is called on a heap with a rooted object and both generations
\* strictly under their thresholds
C7_Witness ==
    /\ pc = "collect"
    /\ young_bytes > 0
    /\ Len(roots) > 0
    /\ young_bytes < threshold_size.young_generation_size
    /\ old_bytes < threshold_size.old_generation_size

(***************************************************************************)
(* C8.  Threshold doubling: a cycle ends by recording the sizes of the two *)
(* generations; until the next cycle the recorded sizes do not change and  *)
(* the threshold is twice each of them; and collect() starts the next      *)
(* cycle only if the young size has reached twice the recorded young size  *)
(* or the old size has reached twice the recorded old size.                *)
(***************************************************************************)
C8_ThresholdDoubling ==
    /\ [](last_collect_size.present =>
             threshold_size =
                [young_generation_size |-> 2 * last_collect_size.young_generation_size,
                 old_generation_size |-> 2 * last_collect_size.old_generation_size])
    /\ [][Returns =>
             last_collect_size' =
                [present |-> TRUE,
                 young_generation_size |-> young_bytes,
                 old_generation_size |-> old_bytes]]_vars
    /\ [][pc # "record" => last_collect_size' = last_collect_size]_vars
    /\ [][(pc = "collect" /\ last_collect_size.present /\ pc' = "mark") =>
             \/ young_bytes >= 2 * last_collect_size.young_generation_size
             \/ old_bytes >= 2 * last_collect_size.old_generation_size]_vars

\* collect() is called after a cycle that left objects in the old space,
\* with the old space still under twice its recorded size
C8_Witness ==
    /\ pc = "collect"
    /\ last_collect_size.present
    /\ last_collect_size.old_generation_size > 0
    /\ old_bytes < 2 * last_collect_size.old_generation_size
    /\ young_bytes >= 2 * last_collect_size.young_generation_size

(***************************************************************************)
(* C9.  Initial threshold: before the first cycle, collect() starts a      *)
(* cycle exactly when the young size is at least 12288 bytes or the old    *)
(* size is at least 12288 bytes.                                           *)
(***************************************************************************)
KiB12 == 12 * 1024

C9_InitialThreshold ==
    [][(pc = "collect" /\ ~last_collect_size.present) =>
          (pc' = "mark" <=> (young_bytes >= KiB12 \/ old_bytes >= KiB12))]_vars

(***************************************************************************)
(* C10.  Idempotence: a force_collect that starts with no allocation,      *)
(* rooting, handle drop or field write since the previous cycle returned   *)
(* copies nothing, drops nothing and frees nothing: when it returns every  *)
(* header is where it was with the content it had (only its raw mark has   *)
(* followed the polarity), and the root table and every root slot are as   *)
(* they were.                                                              *)
(***************************************************************************)
Remarked(h) ==
    [a \in Addrs |-> IF h[a].allocated /\ h[a].collector_id = MyId
                     THEN [h[a] EXCEPT !.raw_mark = ~@]
                     ELSE h[a]]

C10_SecondCycleIdempotent ==
    [][(Returns /\ snap.quiet) =>
          /\ heap' = Remarked(snap.heap)
          /\ Live(heap') = Live(snap.heap)
          /\ slots' = snap.slots
          /\ roots' = snap.roots
          /\ drop_count' = snap.drop_count
          /\ old_bytes' = snap.old_bytes
          /\ young_bytes' = 0]_vars

\* a second cycle in a row is about to return, with a rooted object that
\* points to another one
C10_Witness ==
    /\ pc = "record"
    /\ snap.quiet
    /\ \E s \in Held(slots) : Cardinality(Reach(heap, slots[s].header)) >= 2


(***************************************************************************)
(* C11.  Allocation routing: a new object is placed in the old space, with *)
(* generation Old, exactly when its size exceeds YOUNG_MAX_OBJECT_BYTES    *)
(* (otherwise it is young); a rooted header of the old generation is at    *)
(* the same address when force_collect returns, unforwarded and never       *)
(* copied; and when the young space answers OutOfMemory the call panics    *)
(* with nothing allocated in either space.                                 *)
(***************************************************************************)
\* the step allocates the object with payload value allocs + 1 at address a
Allocates(a) ==
    /\ allocs' = allocs + 1
    /\ heap'[a].allocated
    /\ heap'[a].collector_id = MyId
    /\ heap'[a].value = allocs'

OverYoungCap(hdr) ==
    GcTypeInfo(hdr.metadata.type_info).size > YOUNG_MAX_OBJECT_BYTES

C11_AllocationRouting ==
    /\ [][\A a \in YoungAddrs \cup OldAddrs :
             Allocates(a) =>
                IF OverYoungCap(heap'[a])
                THEN a \in OldAddrs /\ heap'[a].generation = "Old"
                ELSE a \in YoungAddrs /\ heap'[a].generation = "Young"]_vars
    /\ [][Returns =>
             \A s \in Held(snap.slots) :
                LET a == snap.slots[s].header IN
                (snap.heap[a].collector_id = MyId /\ snap.heap[a].generation = "Old")
                   => /\ slots'[s].header = a
                      /\ heap'[a].allocated
                      /\ ~heap'[a].forwarded
                      /\ heap'[a].value = snap.heap[a].value
                      /\ visits[heap'[a].value].copied = 0]_vars
    /\ [][(fault = "none" /\ fault' = "young: OutOfMemory") =>
             /\ status' = "panicked"
             /\ UNCHANGED << heap, young_bytes, old_bytes, allocs >>]_vars

\* an allocation has hit a full young region and panicked although the old
\* space had room: nothing was allocated, the young objects are still there
C11_Witness ==
    /\ fault = "young: OutOfMemory"
    /\ status = "panicked"
    /\ ~OldSpaceFull(heap)
    /\ \A a \in OldAddrs : ~heap[a].allocated
    /\ \A a \in YoungAddrs : heap[a].allocated


(***************************************************************************)
(* C12.  Phase order: control moves only along mark -> young sweep -> old  *)
(* sweep -> flip -> record -> return; marking is left only when every root *)
(* has been handled and no trace is in progress; the polarity changes in   *)
(* the flip only, so each sweep frees by the polarity marking used: the    *)
(* old sweep frees exactly the headers white under it and the young sweep  *)
(* drops exactly the queued white ones; and the sizes recorded are the     *)
(* sizes the sweeps left.                                                  *)
(***************************************************************************)
PhaseOrder ==
    {<< "idle", "mark" >>, << "idle", "collect" >>, << "collect", "mark" >>,
     << "collect", "idle" >>, << "idle", "resolved" >>, << "resolved", "idle" >>,
     << "mark", "sweep_young" >>, << "sweep_young", "sweep_old" >>,
     << "sweep_old", "flip" >>, << "flip", "record" >>, << "record", "idle" >>}

WhiteOld(h, inverted) ==
    {a \in OldAddrs : h[a].allocated /\ resolve(h[a].raw_mark, inverted) = "White"}

C12_PhaseOrder ==
    /\ [][pc' # pc => << pc, pc' >> \in PhaseOrder]_vars
    /\ [][(pc = "mark" /\ pc' # "mark") =>
             stack = << >> /\ root_idx > Len(roots)]_vars
    /\ [][mark_bits_inverted' # mark_bits_inverted =>
             pc = "flip" /\ pc' = "record"]_vars
    /\ [][pc = "sweep_young" =>
             /\ pc' = "sweep_old"
             /\ \A v \in DOMAIN drop_count :
                   drop_count'[v] - drop_count[v] =
                      IF \E a \in destruction_queue :
                            /\ heap[a].value = v
                            /\ heap[a].value_initialized
                            /\ resolve(heap[a].raw_mark, mark_bits_inverted) = "White"
                      THEN 1 ELSE 0
             /\ \A a \in YoungAddrs : ~heap'[a].allocated]_vars
    /\ [][pc = "sweep_old" =>
             /\ pc' = "flip"
             /\ \A a \in OldAddrs :
                   heap'[a].allocated <=>
                      (/\ heap[a].allocated
                       /\ a \notin WhiteOld(heap, mark_bits_inverted))]_vars
    /\ [][(pc = "flip" \/ pc = "record") =>
             /\ heap' = heap
             /\ young_bytes' = young_bytes
             /\ old_bytes' = old_bytes]_vars
    /\ [][Returns =>
             last_collect_size' = [present |-> TRUE,
                                   young_generation_size |-> 0,
                                   old_generation_size |->
                                       SumSizes(heap, OldCells(heap))]]_vars

\* a cycle about to return in which marking promoted an object and the old
\* sweep freed another
C12_Witness ==
    /\ pc = "record"
    /\ \E a \in OldAddrs : snap.heap[a].allocated /\ ~heap[a].allocated
    /\ \E a \in OldAddrs : ~snap.heap[a].allocated /\ heap[a].allocated


(***************************************************************************)
(* C13.  Visited once: within one marking phase no object has its trace    *)
(* function invoked twice or is copied twice; a header is copied or traced *)
(* only in a step that finds it white and unforwarded and leaves it black; *)
(* and tracing a header already visited (black or forwarded) changes       *)
(* nothing but the pointer handed back to the caller, which is the         *)
(* post-copy header.                                                       *)
(***************************************************************************)
PendingMine == Pending # Null /\ heap[Pending].collector_id = MyId

PendingVisited ==
    /\ PendingMine
    /\ \/ heap[Pending].forwarded
       \/ resolve(heap[Pending].raw_mark, mark_bits_inverted) = "Black"

PostCopy(a) == IF heap[a].forwarded THEN heap[a].metadata.forward_ptr ELSE a

\* the heap and root slots after ptr was handed back to the pending caller
Returned(ptr) ==
    IF stack = << >>
    THEN /\ heap' = heap
         /\ slots' = [slots EXCEPT ![roots[root_idx]].header = ptr]
    ELSE LET top == stack[Len(stack)] IN
         /\ heap' = [heap EXCEPT ![top.obj].fields[top.fld] = ptr]
         /\ slots' = slots

C13_VisitedOnce ==
    /\ [](\A v \in DOMAIN visits :
             visits[v].traced <= 1 /\ visits[v].copied <= 1)
    /\ [][(pc = "mark" /\ visits' # visits) =>
             /\ PendingMine
             /\ ~heap[Pending].forwarded
             /\ resolve(heap[Pending].raw_mark, mark_bits_inverted) = "White"
             /\ resolve(heap'[Pending].raw_mark, mark_bits_inverted) = "Black"]_vars
    /\ [][(PendingVisited /\ status' = "running") =>
             /\ Returned(PostCopy(Pending))
             /\ stack' = IF stack = << >> THEN stack
                         ELSE [stack EXCEPT ![Len(stack)].fld = @ + 1]
             /\ UNCHANGED << visits, old_bytes, destruction_queue >>]_vars

\* marking is about to trace, through a field, an object it has already
\* copied and traced once
C13_Witness ==
    /\ pc = "mark"
    /\ status = "running"
    /\ stack # << >>
    /\ PendingVisited
    /\ heap[Pending].forwarded
    /\ visits[heap[Pending].value] = [traced |-> 1, copied |-> 1]


(***************************************************************************)
(* C14.  Completion: once force_collect has started it returns, having     *)
(* marked, swept both spaces, flipped the polarity and recorded the sizes, *)
(* unless it fails fatally; and the only fatal failures of a cycle are an  *)
(* allocation failure of the old space and a collector identity mismatch.  *)
(***************************************************************************)
\* (a panic of the user's trace function is no failure of the collector and
\* is admitted as well)
AdmittedFailures ==
    {"Oldgen alloc failure", "Mismatched collector ids", "trace function panicked"}

C14_RunsToCompletion ==
    /\ [][(pc = "mark" /\ status' # "running") =>
             fault' \in AdmittedFailures]_vars
    /\ (pc = "mark") ~> (pc = "idle" \/ fault \in AdmittedFailures)

\* The work marking has left: the roots not yet handled, the fields not yet
\* handled of the objects being traced, and the white headers.
RECURSIVE FramesLeft(_)
FramesLeft(stk) ==
    IF stk = << >> THEN 0
    ELSE LET top == stk[Len(stk)]
         IN (Len(heap[top.obj].fields) - top.fld + 2) + FramesLeft(Front(stk))

WhiteHeaders ==
    {a \in YoungAddrs \cup OldAddrs :
        /\ heap[a].allocated
        /\ ~heap[a].forwarded
        /\ resolve(heap[a].raw_mark, mark_bits_inverted) = "White"}

MarkMeasure ==
    4 * Cardinality(WhiteHeaders) + FramesLeft(stack) + (Len(roots) + 1 - root_idx)

\* C14, the part that holds of the code: every marking step that does not
\* fail lowers the measure, which is never negative, so marking terminates
\* on every object graph; and a cycle that does not fail returns, with the
\* sizes recorded.
C14_MarkingTerminates ==
    /\ [](pc = "mark" => MarkMeasure >= 0)
    /\ [][(pc = "mark" /\ pc' = "mark" /\ status' = "running") =>
             MarkMeasure' < MarkMeasure]_vars
    /\ (pc = "mark") ~> (pc = "idle" \/ status # "running")
    /\ (pc = "sweep_young") ~> (pc = "idle" /\ last_collect_size.present)


(***************************************************************************)
(* C15.  Initialization rollback: when the initializer of alloc_with exits *)
(* non-locally the header keeps value_initialized = false, no managed      *)
(* pointer to it exists, and its drop function is never called; a header   *)
(* of the old generation is freed at once, a header of the young           *)
(* generation is left alone and reclaimed by the sweep of the next cycle.  *)
(***************************************************************************)
\* this step is an alloc_with whose initializer did not return
InitFails ==
    /\ allocs' = allocs + 1
    /\ \A a \in Addrs : heap'[a].value # allocs + 1

\* the headers an initializer has abandoned
Uninit(h) ==
    {a \in YoungAddrs \cup OldAddrs : h[a].allocated /\ ~h[a].value_initialized}

\* young allocated_bytes just before the header at a was allocated, read off
\* a heap h that holds no forwarded header
PreAllocBytes(h, a) ==
    SumSizes(h, {b \in YoungAddrs : b < a /\ h[b].allocated})

RollbackAtFailure ==
    [][InitFails =>
          /\ status' = "running"
          /\ Accessible(heap') = Accessible(heap)
          /\ drop_count' = drop_count
          /\ \A a \in OldAddrs : heap'[a] = heap[a]
          /\ old_bytes' = old_bytes
          /\ \A a \in YoungAddrs :
                heap'[a] # heap[a] =>
                   /\ a = young_bump + 1
                   /\ ~heap[a].allocated
                   /\ heap'[a].allocated
                   /\ ~heap'[a].value_initialized
                   /\ heap'[a].generation = "Young"
                   /\ young_bytes' = PreAllocBytes(heap', a)
                                        + GcTypeInfo(heap'[a].metadata.type_info).size]_vars

NeverReferencedNeverDropped ==
    /\ [](drop_count[0] = 0)
    /\ [](Uninit(heap) \subseteq YoungAddrs)
    /\ [](\A s \in DOMAIN slots : slots[s].header \notin Uninit(heap))
    /\ [](\A a \in Addrs : \A i \in DOMAIN heap[a].fields :
             heap[a].fields[i] \notin Uninit(heap))
    /\ [][\A a \in Uninit(heap) :
             \/ heap'[a] = heap[a]
             \/ pc = "sweep_young" /\ heap'[a] = FreeCell]_vars

\* the claim as stated: after the sweep young allocated_bytes is again what
\* it was before the failed allocation
C15_BytesBackAtPreAlloc ==
    /\ RollbackAtFailure
    /\ NeverReferencedNeverDropped
    /\ [][(pc = "sweep_young" /\ pc' # pc) =>
             \A a \in Uninit(heap) :
                /\ heap'[a] = FreeCell
                /\ young_bytes' = PreAllocBytes(snap.heap, a)]_vars

\* C15 as it holds: the sweep of the next cycle frees the abandoned header
\* with the whole young region, so young allocated_bytes is 0 after it, which
\* is the pre-alloc value exactly when nothing was allocated in the young
\* generation between the previous sweep and the failed allocation
C15_InitRollback ==
    /\ RollbackAtFailure
    /\ NeverReferencedNeverDropped
    /\ [][(pc = "sweep_young" /\ pc' # pc) =>
             \A a \in Uninit(heap) :
                /\ heap'[a] = FreeCell
                /\ young_bytes' = 0
                /\ (young_bytes' = PreAllocBytes(snap.heap, a)) <=> (a = 1)]_vars

C15_Witness ==
    /\ pc = "sweep_old"
    /\ snap.taken
    /\ \E a \in YoungAddrs :
          /\ a > 1
          /\ snap.heap[a].allocated
          /\ ~snap.heap[a].value_initialized
          /\ snap.heap[a].needs_drop
          /\ heap[a] = FreeCell
    /\ young_bytes = 0
    /\ drop_count = snap.drop_count


(***************************************************************************)
(* C16.  Root table pruning: root adds exactly one entry to the root       *)
(* table; a cycle removes exactly the entries whose handle has been        *)
(* dropped and keeps, in order, those whose handle is held; an object that *)
(* was reachable only through a dropped handle is not traced by the cycle  *)
(* and is dropped and reclaimed by it, also when it lies in the old        *)
(* generation.                                                             *)
(***************************************************************************)
\* the slots of sl whose handle has been dropped
Dropped_handles(sl) == {s \in DOMAIN sl : sl[s].strong = 0}

\* the objects of h that the dropped handle of slot s referred to and that
\* no held handle reaches
OnlyViaDropped(h, sl, rv, s) ==
    {x \in Live(h) : h[x].value = rv[s] /\ x \notin ReachRoots(h, sl)}

RECURSIVE HeldEntries(_, _)
HeldEntries(rts, sl) ==
    IF rts = << >> THEN << >>
    ELSE IF sl[Head(rts)].strong > 0
         THEN << Head(rts) >> \o HeldEntries(Tail(rts), sl)
         ELSE HeldEntries(Tail(rts), sl)

C16_RootTablePruning ==
    /\ [][slots' # slots /\ pc = "idle" /\ Len(slots') > Len(slots) =>
             /\ Len(slots') = Len(slots) + 1
             /\ roots' = Append(roots, Len(slots'))
             /\ slots'[Len(slots')].strong = 1]_vars
    /\ [][roots' # roots =>
             \/ pc = "idle" /\ Len(slots') = Len(slots) + 1
             \/ /\ pc = "mark"
                /\ Len(roots') = Len(roots) - 1
                /\ slots[roots[root_idx]].strong = 0]_vars
    /\ [][Returns =>
             /\ roots' = HeldEntries(snap.roots, snap.slots)
             /\ \A s \in Dropped_handles(snap.slots) :
                   \A x \in OnlyViaDropped(snap.heap, snap.slots, rooted_value, s) :
                      LET v == snap.heap[x].value
                          ty == snap.heap[x].metadata.type_info
                      IN /\ visits[v] = [traced |-> 0, copied |-> 0]
                         /\ heap'[x] = FreeCell
                         /\ \A a \in YoungAddrs \cup OldAddrs : heap'[a].value # v
                         /\ drop_count'[v] - snap.drop_count[v]
                               = IF GcTypeInfo(ty).drop_func THEN 1 ELSE 0]_vars

\* a later cycle is about to return; it has removed the entry of a dropped
\* handle, kept the entry of a held one, and dropped and freed the object
\* that the dropped handle had rooted and an earlier cycle had promoted
C16_Witness ==
    /\ pc = "record"
    /\ snap.taken
    /\ Len(snap.roots) = 2
    /\ Len(roots) = 1
    /\ \E s \in Dropped_handles(snap.slots) :
          \E x \in OnlyViaDropped(snap.heap, snap.slots, rooted_value, s) :
             /\ snap.heap[x].generation = "Old"
             /\ ~OverYoungCap(snap.heap[x])
             /\ snap.heap[x].needs_drop
             /\ heap[x] = FreeCell
             /\ drop_count[snap.heap[x].value] = 1


(***************************************************************************)
(* C17.  Array promotion: a cycle that collects a rooted young array of    *)
(* managed pointers promotes the array header to the old generation (the   *)
(* only way for the step to fail is that the old generation has no         *)
(* memory), promotes the referent of each element exactly once, so that    *)
(* elements with the same referent end up with the same copy, and leaves   *)
(* in every pointer cell of the promoted array the new address of its      *)
(* referent.                                                               *)
(***************************************************************************)
\* the next marking step traces a young array that has not been visited
PendingYoungArray ==
    /\ PendingMine
    /\ heap[Pending].array
    /\ heap[Pending].generation = "Young"
    /\ ~heap[Pending].forwarded
    /\ resolve(heap[Pending].raw_mark, mark_bits_inverted) = "White"

\* the header at a has been promoted and forwards to an array header of the
\* old generation with the same payload
ArrayPromoted(before, after, a) ==
    /\ after[a].forwarded
    /\ LET d == after[a].metadata.forward_ptr IN
       /\ d \in OldAddrs
       /\ after[d].allocated
       /\ after[d].array
       /\ after[d].generation = "Old"
       /\ after[d].value = before[a].value

\* the young arrays that held handles root in the heap h
RootedYoungArrays(h, sl) ==
    {s \in Held(sl) : sl[s].header \in YoungAddrs /\ h[sl[s].header].array}

ArrayHeaderStep ==
    [][PendingYoungArray =>
          \/ ArrayPromoted(heap, heap', Pending)
          \/ fault' = "Oldgen alloc failure"]_vars

ArrayAfterCycle ==
    [][Returns =>
          \A s \in RootedYoungArrays(snap.heap, snap.slots) :
             LET a == snap.slots[s].header
                 d == slots'[s].header
             IN /\ d \in OldAddrs
                /\ heap'[d].allocated /\ heap'[d].array
                /\ heap'[d].generation = "Old"
                /\ heap'[d].value = snap.heap[a].value
                /\ visits[snap.heap[a].value].copied = 1
                /\ DOMAIN heap'[d].fields = DOMAIN snap.heap[a].fields
                /\ \A i \in DOMAIN snap.heap[a].fields :
                      LET t == snap.heap[a].fields[i]
                          u == heap'[d].fields[i]
                      IN /\ t = Null => u = Null
                         /\ t = ForeignAddr => u = ForeignAddr
                         /\ t \in YoungAddrs =>
                               /\ u \in OldAddrs
                               /\ heap'[u].allocated /\ ~heap'[u].forwarded
                               /\ heap'[u].generation = "Old"
                               /\ heap'[u].value = snap.heap[t].value
                               /\ visits[snap.heap[t].value].copied = 1
                /\ \A i, j \in DOMAIN snap.heap[a].fields :
                      snap.heap[a].fields[i] = snap.heap[a].fields[j] =>
                         heap'[d].fields[i] = heap'[d].fields[j]]_vars

C17_ArrayPromotion == ArrayHeaderStep /\ ArrayAfterCycle

\* what the code does with a young array in a build without debug
\* assertions (and, in any build, once the array header has been passed):
\* the header step either promotes the array or stops the process
C17_ArrayPromotionUnlessAsserted ==
    /\ [][PendingYoungArray =>
             \/ ArrayPromoted(heap, heap', Pending)
             \/ fault' = "Oldgen alloc failure"
             \/ fault' = "Incorrectly marked as an array"]_vars
    /\ ArrayAfterCycle

\* a cycle is about to return that has promoted a rooted young array whose
\* two elements pointed to the same young object
C17_ReleaseWitness ==
    /\ pc = "record"
    /\ snap.taken
    /\ \E s \in RootedYoungArrays(snap.heap, snap.slots) :
          LET a == snap.slots[s].header IN
          /\ snap.heap[a].fields[1] \in YoungAddrs
          /\ snap.heap[a].fields[2] = snap.heap[a].fields[1]
          /\ slots[s].header \in OldAddrs


(***************************************************************************)
(* C18.  handle.resolve(collector) compares the identity stored in the     *)
(* handle with the identity of the collector it is given: if they are      *)
(* equal it returns the managed pointer to the header that the root slot   *)
(* holds at that moment; if they differ it panics, returns no pointer and  *)
(* leaves the slot as it was.                                              *)
(***************************************************************************)
C18_ResolveChecksIdentity ==
    /\ [](pc = "resolved" =>
            /\ call.made
            /\ call.handle \in Held(slots)
            /\ call.collector_id = MyId =>
                  /\ call.kind = "ok"
                  /\ status = "running"
                  /\ call.ptr = slots[call.handle].header
                  /\ heap[call.ptr].allocated
                  /\ heap[call.ptr].value_initialized
                  /\ ~heap[call.ptr].forwarded
                  /\ heap[call.ptr].value = rooted_value[call.handle]
            /\ call.collector_id # MyId =>
                  /\ call.kind = "panic"
                  /\ call.ptr = Null
                  /\ status = "panicked"
                  /\ fault = "assertion failed: id")
    /\ [][pc' = "resolved" =>
             UNCHANGED << slots, roots, heap, rooted_value >>]_vars
    /\ [][call' # call => pc' = "resolved" \/ pc = "resolved"]_vars

\* resolve has just panicked on a collector of another identity; the slot
\* still holds the header an earlier cycle promoted
C18_Witness ==
    /\ pc = "resolved"
    /\ call.kind = "panic"
    /\ call.collector_id = OtherId
    /\ status = "panicked"
    /\ slots[call.handle].header \in OldAddrs
    /\ ~OverYoungCap(heap[slots[call.handle].header])

\* resolve has just returned, to a matching collector, the header a cycle
\* moved the rooted object to
C18_WitnessMatching ==
    /\ pc = "resolved"
    /\ call.kind = "ok"
    /\ call.ptr \in OldAddrs
    /\ ~OverYoungCap(heap[call.ptr])


(***************************************************************************)
(* C19.  Forwarding: at every point of a marking phase every forwarded     *)
(* header is a header of the young generation that resolves to Black under *)
(* the current polarity and whose metadata holds a pointer to a header of  *)
(* the old space with generation Old, value_initialized set and forwarded  *)
(* clear; no header of the old generation is ever forwarded.               *)
(***************************************************************************)
Forwarded(h) == {a \in Addrs : h[a].allocated /\ h[a].forwarded}

ForwardsToOldCopy(h, a, inverted) ==
    /\ a \in YoungAddrs
    /\ h[a].generation = "Young"
    /\ resolve(h[a].raw_mark, inverted) = "Black"
    /\ LET d == h[a].metadata.forward_ptr IN
       /\ d \in OldAddrs
       /\ h[d].allocated
       /\ h[d].generation = "Old"
       /\ h[d].value_initialized
       /\ ~h[d].forwarded

C19_ForwardedHeaders ==
    /\ pc = "mark" =>
          \A a \in Forwarded(heap) : ForwardsToOldCopy(heap, a, mark_bits_inverted)
    /\ \A a \in Addrs :
          (heap[a].allocated /\ heap[a].generation = "Old") => ~heap[a].forwarded
    /\ \A a \in OldAddrs : ~heap[a].forwarded

\* in the middle of a marking phase: two objects have been forwarded, and
\* the copy of the first already points to the copy of the second
C19_Witness ==
    /\ pc = "mark"
    /\ stack # << >>
    /\ \E a, b \in Forwarded(heap) :
          LET d == heap[a].metadata.forward_ptr IN
          /\ a # b
          /\ Len(heap[d].fields) >= 1
          /\ heap[d].fields[1] = heap[b].metadata.forward_ptr


(***************************************************************************)
(* C20.  The old generation space's own copy of mark_bits_inverted equals  *)
(* the collector state's at every cycle boundary: before the first cycle   *)
(* and whenever force_collect has returned, after any number of cycles.    *)
(***************************************************************************)
AtCycleBoundary == pc \in {"idle", "collect", "resolved"}

MarkingFailures ==
    {"Mismatched collector ids", "Oldgen alloc failure",
     "trace function panicked", "Incorrectly marked as an array"}

C21_GuardCoversMarking ==
    /\ [](guard_armed <=> pc = "mark")
    /\ [][(~guard_armed /\ guard_armed') =>
             /\ pc' = "mark"
             /\ root_idx' = 1
             /\ stack' = << >>
             /\ visits' = NoVisits
             /\ UNCHANGED << heap, slots, roots >>]_vars
    /\ [][(guard_armed /\ ~guard_armed') =>
             /\ pc = "mark" /\ pc' = "sweep_young"
             /\ root_idx > Len(roots)
             /\ stack = << >>
             /\ status' = "running"
             /\ UNCHANGED << heap, young_bytes, old_bytes, drop_count >>]_vars
    /\ [][(pc = "mark" /\ status' # "running") =>
             /\ status' = "aborted"
             /\ fault' \in MarkingFailures]_vars
    /\ [](status = "panicked" => Forwarded(heap) = {})
    /\ [](status = "aborted" => pc = "mark" /\ guard_armed)
    /\ [](pc \in {"sweep_young", "sweep_old", "flip", "record"} => ~guard_armed)

\* a promotion has failed for lack of old memory after another object had
\* been forwarded: the process has aborted with the guard armed
C21_Witness ==
    /\ status = "aborted"
    /\ guard_armed
    /\ fault = "Oldgen alloc failure"
    /\ Forwarded(heap) # {}

\* a trace function has panicked under the armed guard
C21_WitnessTraceFunction ==
    /\ status = "aborted"
    /\ guard_armed
    /\ fault = "trace function panicked"
    /\ Forwarded(heap) # {}


(***************************************************************************)
(* C22.  When force_collect returns, every surviving object is in the old  *)
(* generation and the young space is empty, and every managed-pointer      *)
(* field of every survivor, also one that points to the object itself or   *)
(* back to an ancestor, holds the post-collection address of its referent: *)
(* an old-generation header that is not forwarded, never the address of a  *)
(* young header.                                                           *)
(***************************************************************************)
\* the objects of this collector that are allocated in the heap h
Survivors(h) == {a \in YoungAddrs \cup OldAddrs : h[a].allocated}

\* the object of the heap h that carries the payload value v
WithValue(h, v) == {x \in Live(h) : h[x].value = v}

C22_FieldsHoldNewAddresses ==
    [][Returns =>
          /\ \A a \in YoungAddrs : heap'[a] = FreeCell
          /\ young_bytes' = 0
          /\ \A d \in Survivors(heap') :
                /\ d \in OldAddrs
                /\ heap'[d].generation = "Old"
                /\ ~heap'[d].forwarded
                /\ \A i \in DOMAIN heap'[d].fields :
                      LET u == heap'[d].fields[i] IN
                      u # Null =>
                         /\ u \in OldAddrs
                         /\ heap'[u].allocated
                         /\ heap'[u].generation = "Old"
                         /\ ~heap'[u].forwarded
                         /\ heap'[u].value_initialized
                /\ \A x \in WithValue(snap.heap, heap'[d].value) :
                      \A i \in DOMAIN snap.heap[x].fields :
                         LET t == snap.heap[x].fields[i]
                             u == heap'[d].fields[i]
                         IN IF t = Null THEN u = Null
                            ELSE u # Null /\ heap'[u].value = snap.heap[t].value]_vars

\* a cycle is about to return that has promoted two young objects pointing
\* to each other: each copy points to the other copy
C22_Witness ==
    /\ pc = "record"
    /\ snap.taken
    /\ \E x, y \in YoungAddrs :
          /\ x # y
          /\ snap.heap[x].allocated /\ snap.heap[y].allocated
          /\ Len(snap.heap[x].fields) >= 1 /\ Len(snap.heap[y].fields) >= 1
          /\ snap.heap[x].fields[1] = y
          /\ snap.heap[y].fields[1] = x
          /\ \E d, e \in OldAddrs :
                /\ d # e
                /\ heap[d].allocated /\ heap[e].allocated
                /\ heap[d].value = snap.heap[x].value
                /\ heap[e].value = snap.heap[y].value
                /\ heap[d].fields[1] = e
                /\ heap[e].fields[1] = d


(***************************************************************************)
(* C23.  Every header reachable from a root slot or from a managed pointer *)
(* that alloc_with returned has value_initialized = true: alloc_with sets  *)
(* the flag only with the payload written and hands out the pointer only   *)
(* with the flag set, and a promotion sets the flag on the old-space copy  *)
(* before any pointer to the copy is stored in a root slot or a field.     *)
(***************************************************************************)
\* the headers of this collector that the root set reaches in the heap h
ReachableMine(h, sl) == ReachRoots(h, sl) \ {ForeignAddr, Null}

\* the header at a has its flag set and its payload written
FlagAndPayload(h, a) ==
    /\ h[a].allocated
    /\ h[a].value_initialized
    /\ h[a].value \in 1 .. MaxAllocs

C23_ReachableInitialized ==
    /\ [](\A a \in ReachableMine(heap, slots) : FlagAndPayload(heap, a))
    /\ [](\A i \in DOMAIN stack : FlagAndPayload(heap, stack[i].obj))
    /\ [](\A a \in YoungAddrs \cup OldAddrs :
             heap[a].value_initialized => FlagAndPayload(heap, a))
    /\ [][allocs' = allocs + 1 =>
             LET new == Accessible(heap') \ Accessible(heap) IN
             \/ new = {}
             \/ \E x \in Addrs :
                   /\ new = {x}
                   /\ ~heap[x].allocated
                   /\ heap'[x].value = allocs + 1]_vars
    /\ [][(pc = "mark" /\ visits' # visits) =>
             /\ heap[Pending].value_initialized
             /\ heap'[Pending].forwarded =>
                   FlagAndPayload(heap', heap'[Pending].metadata.forward_ptr)]_vars

\* tracing is under way on the copy of a rooted object, and the slot of a
\* root handled earlier already holds the address of a promoted copy
C23_Witness ==
    /\ pc = "mark"
    /\ stack # << >>
    /\ root_idx = 2
    /\ slots[roots[1]].strong > 0
    /\ slots[roots[1]].header \in OldAddrs
    /\ snap.slots[roots[1]].header \in YoungAddrs
    /\ heap[stack[1].obj].value_initialized
    /\ stack[1].obj \in OldAddrs


(***************************************************************************)
(* C24.  Because the young sweep leaves the young size at 0 before the     *)
(* sizes are recorded, the young threshold after any completed cycle is    *)
(* 2 * 0 = 0, the test "young size >= young threshold" is always true, and *)
(* every collect() called after the first completed cycle runs a full      *)
(* force_collect, however little has been allocated since.                 *)
(***************************************************************************)
C24_CollectAlwaysRunsAfterFirstCycle ==
    /\ [](last_collect_size.present =>
             /\ last_collect_size.young_generation_size = 0
             /\ threshold_size.young_generation_size = 0
             /\ young_bytes >= threshold_size.young_generation_size
             /\ needs_collection)
    /\ [][(pc = "record" /\ pc' # pc) => young_bytes = 0]_vars
    /\ [][(pc = "collect" /\ last_collect_size.present) =>
             /\ pc' = "mark"
             /\ guard_armed'
             /\ snap'.taken]_vars

\* collect() has been called right after a cycle returned, with nothing
\* allocated since and the old space under its threshold: only the young
\* test, 0 >= 0, makes it collect
C24_Witness ==
    /\ pc = "collect"
    /\ quiet
    /\ last_collect_size.present
    /\ young_bytes = 0
    /\ old_bytes > 0
    /\ old_bytes < threshold_size.old_generation_size

====
